---- MODULE Spec2Model ----
(***************************************************************************)
(* Model of the evaluation driver `evaluate` of test_time.py: the setting  *)
(* validation, the domain/severity plan, the subgroup > cycle > domain >   *)
(* severity loops, the error containers and the final reports.             *)
(*                                                                         *)
(* Errors and accuracies are integers in basis points (10000 = 100%); an   *)
(* average is the floor of sum / count.  The external routines             *)
(* (model.reset, get_test_loader, get_accuracy) are modelled by their      *)
(* possible outcomes: a normal return or a raised exception.               *)
(***************************************************************************)
EXTENDS Integers, Sequences, FiniteSets, TLC

VARIABLES
    cfg,                        \* the loaded configuration (constant during a run)
    accSeed,                    \* selects the accuracies get_accuracy returns in this run
    pc,                         \* position of the driver
    failure,                    \* the exception that ended the run, or "none"
    model,                      \* "none" | "base" (get_model done) | "adapted" (TTA method built)
    domain_sequence,
    domain_seq_loop,
    severities,
    errs,
    errs_5,
    domain_dict,                \* TRUE iff the dictionary returned by get_accuracy is non-empty
    subgroup_avgs,
    cycle_avgs_all_subgroups,
    subgroup_cycle_errs,
    cycle_errs,
    total_avg_error,            \* -1 until computed
    sg,                         \* 1-based index into subgroups
    cycle,                      \* loop counter of `for cycle in range(2)`; 2 once the loop is over
    i_dom,
    sev_idx,                    \* 1-based position in severities
    domain_name,
    reset_log,                  \* log line written by the reset attempt of the current subgroup
    report,                     \* which final "mean error" line was logged
    domain_report,              \* TRUE iff eval_domain_dict was invoked
    raised,                     \* what the most recent call raised (NoRaise if it returned)
    calls                       \* history of the calls to model.reset, get_test_loader, get_accuracy

vars == <<cfg, accSeed, pc, failure, model, domain_sequence, domain_seq_loop, severities,
          errs, errs_5, domain_dict, subgroup_avgs, cycle_avgs_all_subgroups,
          subgroup_cycle_errs, cycle_errs, total_avg_error, sg, cycle, i_dom, sev_idx,
          domain_name, reset_log, report, domain_report, raised, calls>>

(***************************************************************************)
(* Bounds of the explored configurations                                   *)
(***************************************************************************)
MaxDomains == 15                \* longest configured domain sequence
MaxSevLen == 2                  \* longest configured severity list

(***************************************************************************)
(* Python helpers                                                          *)
(***************************************************************************)
\* Python's `sub in s` on strings
Contains(sub, s) ==
    \E i \in 0..(Len(s) - Len(sub)) : SubSeq(s, i + 1, i + Len(sub)) = sub

\* Python's range(a, b) as a record; the indices are start .. stop-1
Range(a, b) == [start |-> a, stop |-> b]
RangeLen(r) == IF r.stop > r.start THEN r.stop - r.start ELSE 0

RECURSIVE Sum(_)
Sum(s) == IF s = <<>> THEN 0 ELSE Head(s) + Sum(Tail(s))

\* sum(xs) / len(xs) in basis points; the caller handles len(xs) = 0
Mean(s) == Sum(s) \div Len(s)

(***************************************************************************)
(* Constants of the driver                                                 *)
(***************************************************************************)
\* variant: the last setting is spelled with a plural
valid_settings_typo ==
    { "reset_each_shift", "continual", "gradual", "mixed_domains", "correlated",
      "mixed_domains_correlated", "gradual_correlated", "reset_each_shift_correlated",
      "continual_mixed_domains" }

valid_settings ==
    { "reset_each_shift", "continual", "gradual", "mixed_domains", "correlated",
      "mixed_domains_correlated", "gradual_correlated", "reset_each_shift_correlated",
      "continual_mixed_domain" }

\* variant: the last subgroup stops one domain early
subgroups_short ==
    << Range(0, 3), Range(3, 7), Range(7, 10), Range(10, 12), Range(12, 14) >>

subgroups ==
    << Range(0, 3), Range(3, 7), Range(7, 10), Range(10, 12), Range(12, 15) >>

\* variant: range(1), a single cycle per subgroup
SingleCycle == 2 - 1

NumCycles == 2

GradualSeverities == <<1, 2, 3, 4, 5, 4, 3, 2, 1>>

GradualDatasets == { "cifar10_c", "cifar100_c", "imagenet_c" }

ImagenetDDomains == << "clipart", "infograph", "painting", "real", "sketch" >>

(***************************************************************************)
(* The plan: domain sequence, loop sequence, severities                    *)
(***************************************************************************)
\* result of ckpt_path_to_domain_seq for the configured checkpoint
CkptDomainSeq == << "real", "clipart", "painting", "sketch" >>

\* line 112: cfg.CORRUPTION.TYPE[0] is evaluated on an empty list
PlanRaisesIndexError(c) ==
    /\ c.DATASET # "domainnet126"
    /\ c.DATASET \in { "imagenet_d", "imagenet_d109" }
    /\ c.TYPE = <<>>

\* lines 109-116
DomainSequence(c) ==
    IF c.DATASET = "domainnet126" THEN CkptDomainSeq
    ELSE IF c.DATASET \in { "imagenet_d", "imagenet_d109" } /\ c.TYPE[1] = ""
         THEN ImagenetDDomains
         ELSE c.TYPE

\* variant: the mixed stream is entered once per domain of the sequence
DomainSeqLoop_repeated(setting, seq) ==
    IF Contains("mixed_domains", setting) THEN [i \in 1..Len(seq) |-> "mixed"] ELSE seq

\* line 120
DomainSeqLoop(setting, seq) ==
    IF Contains("mixed_domains", setting) THEN << "mixed" >> ELSE seq

\* variant: the gradual sequence replaces a configured list of any length
Severities_anyLength(c) ==
    IF /\ Contains("gradual", c.SETTING)
       /\ c.DATASET \in GradualDatasets
    THEN GradualSeverities
    ELSE c.SEVERITY

\* lines 122-127
Severities(c) ==
    IF /\ Contains("gradual", c.SETTING)
       /\ c.DATASET \in GradualDatasets
       /\ Len(c.SEVERITY) = 1
    THEN GradualSeverities
    ELSE c.SEVERITY

\* variant: the domain name is not looked at
CountsAtFive_anyDomain(severity, name) == severity = 5

\* line 200 / 271
CountsAtFive(severity, name) == severity = 5 /\ name # "none"

\* variant: `except Exception`
ResetGuardCatches_all(exc) == TRUE

\* line 152: the exceptions the guard around model.reset swallows
ResetGuardCatches(exc) == exc = "AttributeError"

\* variant: a substring test, as for the other setting tests
RunsExtraPass_substring(setting) == Contains("continual", setting)

\* line 230
RunsExtraPass(setting) == setting = "continual_mixed_domain"

\* line 281
ReportsDomains(setting, dict) == Contains("mixed_domains", setting) /\ dict

(***************************************************************************)
(* Inputs                                                                  *)
(***************************************************************************)
AllCorruptions ==
    << "gaussian_noise", "shot_noise", "impulse_noise", "defocus_blur", "glass_blur",
       "motion_blur", "zoom_blur", "snow", "frost", "fog", "brightness", "contrast",
       "elastic_transform", "pixelate", "jpeg_compression" >>

CorruptionAt(i) == AllCorruptions[((i - 1) % Len(AllCorruptions)) + 1]
Prefix(n) == [i \in 1..n |-> CorruptionAt(i)]

TypeOptions ==
    { Prefix(n) : n \in {0, 1, 5, MaxDomains} }
      \cup { << "" >>, [Prefix(MaxDomains) EXCEPT ![2] = "none"] }

SeverityBase == <<5, 1, 3, 2, 4>>
SeverityOptions == { SubSeq(SeverityBase, 1, n) : n \in 0..MaxSevLen }

SettingOptions == valid_settings \cup { "continual_mixed_domains", "" }

DatasetOptions == { "cifar10_c", "imagenet_d", "domainnet126" }

Configs ==
    [ SETTING : SettingOptions, DATASET : DatasetOptions, TYPE : TypeOptions,
      SEVERITY : SeverityOptions, REGISTERED : BOOLEAN ]

AccSeeds == { 0, 3700 }

Exceptions == { "AttributeError", "RuntimeError" }

\* the accuracy get_accuracy returns for the n-th evaluation of the run
Accuracy(seed, n, severity) == (seed + 700 * n + 1100 * severity) % 10001

(***************************************************************************)
(* State machine                                                           *)
(***************************************************************************)
\* one entry of the call history, written when the call is made
Call(op, setting, name, severity) ==
    [ op |-> op, setting |-> setting, domain |-> name, severity |-> severity,
      sg |-> sg, cycle |-> cycle, i_dom |-> i_dom ]

NoRaise == [ op |-> "none", exc |-> "none" ]

\* an exception that propagates out of evaluate
Raise(exc) == pc' = "aborted" /\ failure' = exc

Init ==
    /\ cfg \in Configs
    /\ accSeed \in AccSeeds
    /\ pc = "assert_setting"
    /\ failure = "none"
    /\ model = "none"
    /\ domain_sequence = <<>>
    /\ domain_seq_loop = <<>>
    /\ severities = <<>>
    /\ errs = <<>>
    /\ errs_5 = <<>>
    /\ domain_dict = FALSE
    /\ subgroup_avgs = <<>>
    /\ cycle_avgs_all_subgroups = [c \in 1..NumCycles |-> <<>>]
    /\ subgroup_cycle_errs = <<>>
    /\ cycle_errs = <<>>
    /\ total_avg_error = -1
    /\ sg = 0
    /\ cycle = 0
    /\ i_dom = 0
    /\ sev_idx = 0
    /\ domain_name = ""
    /\ reset_log = "none"
    /\ report = "none"
    /\ domain_report = FALSE
    /\ raised = NoRaise
    /\ calls = <<>>

\* lines 22-33
ValidateSetting ==
    /\ pc = "assert_setting"
    /\ IF cfg.SETTING \in valid_settings
       THEN pc' = "setup" /\ failure' = failure
       ELSE Raise("AssertionError")
    /\ UNCHANGED <<cfg, accSeed, model, domain_sequence, domain_seq_loop, severities,
                   errs, errs_5, domain_dict, subgroup_avgs, cycle_avgs_all_subgroups,
                   subgroup_cycle_errs, cycle_errs, total_avg_error, sg, cycle, i_dom,
                   sev_idx, domain_name, reset_log, report, domain_report, raised, calls>>

\* lines 35-62: get_model builds the base model, then the adaptation is looked up
SetupModel ==
    /\ pc = "setup"
    /\ IF cfg.REGISTERED
       THEN model' = "adapted" /\ pc' = "plan" /\ failure' = failure
       ELSE model' = "base" /\ Raise("AssertionError")
    /\ UNCHANGED <<cfg, accSeed, domain_sequence, domain_seq_loop, severities,
                   errs, errs_5, domain_dict, subgroup_avgs, cycle_avgs_all_subgroups,
                   subgroup_cycle_errs, cycle_errs, total_avg_error, sg, cycle, i_dom,
                   sev_idx, domain_name, reset_log, report, domain_report, raised, calls>>

\* lines 108-142, and the entry into the subgroup loop (line 145)
BuildPlan ==
    /\ pc = "plan"
    /\ IF PlanRaisesIndexError(cfg)
       THEN /\ Raise("IndexError")
            /\ UNCHANGED <<domain_sequence, domain_seq_loop, severities, sg>>
       ELSE /\ domain_sequence' = DomainSequence(cfg)
            /\ domain_seq_loop' = DomainSeqLoop(cfg.SETTING, DomainSequence(cfg))
            /\ severities' = Severities(cfg)
            /\ sg' = 1
            /\ pc' = "subgroup_start"
            /\ failure' = failure
    /\ UNCHANGED <<cfg, accSeed, model, errs, errs_5, domain_dict, subgroup_avgs,
                   cycle_avgs_all_subgroups, subgroup_cycle_errs, cycle_errs,
                   total_avg_error, cycle, i_dom, sev_idx, domain_name, reset_log,
                   report, domain_report, raised, calls>>

\* lines 145-155: the reset attempt at the start of a subgroup
ResetModel ==
    /\ pc = "subgroup_start"
    /\ subgroup_cycle_errs' = <<>>
    /\ calls' = Append(calls, Call("reset", cfg.SETTING, "", 0))
    /\ \/ /\ reset_log' = "reset"
          /\ pc' = "cycle_start"
          /\ failure' = failure /\ raised' = NoRaise
       \/ \E exc \in Exceptions :
            /\ raised' = [op |-> "reset", exc |-> exc]
            /\ IF ResetGuardCatches(exc)
               THEN reset_log' = "warning" /\ pc' = "cycle_start" /\ failure' = failure
               ELSE reset_log' = "none" /\ Raise(exc)
    /\ cycle' = 0
    /\ UNCHANGED <<cfg, accSeed, model, domain_sequence, domain_seq_loop, severities,
                   errs, errs_5, domain_dict, subgroup_avgs, cycle_avgs_all_subgroups,
                   cycle_errs, total_avg_error, sg, i_dom, sev_idx, domain_name,
                   report, domain_report>>

\* lines 155-158: a cycle starts at the first domain index of the subgroup
StartCycle ==
    /\ pc = "cycle_start"
    /\ cycle_errs' = <<>>
    /\ i_dom' = subgroups[sg].start
    /\ pc' = IF RangeLen(subgroups[sg]) > 0 THEN "domain" ELSE "cycle_end"
    /\ UNCHANGED <<cfg, accSeed, failure, model, domain_sequence, domain_seq_loop,
                   severities, errs, errs_5, domain_dict, subgroup_avgs,
                   cycle_avgs_all_subgroups, subgroup_cycle_errs, total_avg_error, sg,
                   cycle, sev_idx, domain_name, reset_log, report, domain_report,
                   raised, calls>>

\* lines 158-161: domain_name = domain_seq_loop[i_dom], then the severity loop starts;
\* with no severity the domain loop moves on at once
SelectDomain ==
    /\ pc = "domain"
    /\ IF i_dom + 1 \in DOMAIN domain_seq_loop
       THEN /\ domain_name' = domain_seq_loop[i_dom + 1]
            /\ failure' = failure
            /\ IF severities # <<>>
               THEN sev_idx' = 1 /\ pc' = "load" /\ i_dom' = i_dom
               ELSE /\ sev_idx' = sev_idx
                    /\ IF i_dom + 1 < subgroups[sg].stop
                       THEN i_dom' = i_dom + 1 /\ pc' = "domain"
                       ELSE i_dom' = i_dom /\ pc' = "cycle_end"
       ELSE /\ Raise("IndexError")
            /\ UNCHANGED <<domain_name, sev_idx, i_dom>>
    /\ UNCHANGED <<cfg, accSeed, model, domain_sequence, domain_seq_loop, severities,
                   errs, errs_5, domain_dict, subgroup_avgs, cycle_avgs_all_subgroups,
                   subgroup_cycle_errs, cycle_errs, total_avg_error, sg, cycle,
                   reset_log, report, domain_report, raised, calls>>

\* lines 162-182
LoadData ==
    /\ pc = "load"
    /\ calls' = Append(calls, Call("get_test_loader", cfg.SETTING, domain_name,
                                   severities[sev_idx]))
    /\ \/ pc' = "accuracy" /\ failure' = failure /\ raised' = NoRaise
       \/ \E exc \in Exceptions :
            raised' = [op |-> "get_test_loader", exc |-> exc] /\ Raise(exc)
    /\ UNCHANGED <<cfg, accSeed, model, domain_sequence, domain_seq_loop, severities,
                   errs, errs_5, domain_dict, subgroup_avgs, cycle_avgs_all_subgroups,
                   subgroup_cycle_errs, cycle_errs, total_avg_error, sg, cycle, i_dom,
                   sev_idx, domain_name, reset_log, report, domain_report>>

\* lines 184-203, and the advance of the severity and domain loops
GetAccuracy ==
    /\ pc = "accuracy"
    /\ calls' = Append(calls, Call("get_accuracy", cfg.SETTING, domain_name,
                                   severities[sev_idx]))
    /\ \/ \E filled \in {domain_dict, TRUE} :
            LET err == 10000 - Accuracy(accSeed, Len(errs) + 1, severities[sev_idx])
            IN  /\ domain_dict' = filled
                /\ errs' = Append(errs, err)
                /\ cycle_errs' = Append(cycle_errs, err)
                /\ errs_5' = IF CountsAtFive(severities[sev_idx], domain_name)
                             THEN Append(errs_5, err) ELSE errs_5
                /\ failure' = failure /\ raised' = NoRaise
                /\ IF sev_idx < Len(severities)
                   THEN sev_idx' = sev_idx + 1 /\ i_dom' = i_dom /\ pc' = "load"
                   ELSE /\ sev_idx' = sev_idx
                        /\ IF i_dom + 1 < subgroups[sg].stop
                           THEN i_dom' = i_dom + 1 /\ pc' = "domain"
                           ELSE i_dom' = i_dom /\ pc' = "cycle_end"
       \/ /\ \E exc \in Exceptions :
               raised' = [op |-> "get_accuracy", exc |-> exc] /\ Raise(exc)
          /\ UNCHANGED <<domain_dict, errs, cycle_errs, errs_5, sev_idx, i_dom>>
    /\ UNCHANGED <<cfg, accSeed, model, domain_sequence, domain_seq_loop, severities,
                   subgroup_avgs, cycle_avgs_all_subgroups, subgroup_cycle_errs,
                   total_avg_error, sg, cycle, domain_name, reset_log, report,
                   domain_report>>

\* lines 205-209, and the advance of the cycle loop
EndCycle ==
    /\ pc = "cycle_end"
    /\ IF cycle_errs = <<>>
       THEN /\ Raise("ZeroDivisionError")
            /\ UNCHANGED <<subgroup_cycle_errs, cycle_avgs_all_subgroups, cycle>>
       ELSE /\ subgroup_cycle_errs' = Append(subgroup_cycle_errs, Mean(cycle_errs))
            /\ cycle_avgs_all_subgroups' =
                 [cycle_avgs_all_subgroups EXCEPT
                    ![cycle + 1] = Append(@, Mean(cycle_errs))]
            /\ cycle' = cycle + 1
            /\ pc' = IF cycle + 1 < NumCycles THEN "cycle_start" ELSE "subgroup_end"
            /\ failure' = failure
    /\ UNCHANGED <<cfg, accSeed, model, domain_sequence, domain_seq_loop, severities,
                   errs, errs_5, domain_dict, subgroup_avgs, cycle_errs,
                   total_avg_error, sg, i_dom, sev_idx, domain_name, reset_log, report,
                   domain_report, raised, calls>>

\* lines 211-214, and the advance of the subgroup loop
EndSubgroup ==
    /\ pc = "subgroup_end"
    /\ subgroup_avgs' = Append(subgroup_avgs, Mean(subgroup_cycle_errs))
    /\ IF sg < Len(subgroups)
       THEN sg' = sg + 1 /\ pc' = "subgroup_start"
       ELSE sg' = sg /\ pc' = "aggregate"
    /\ UNCHANGED <<cfg, accSeed, failure, model, domain_sequence, domain_seq_loop,
                   severities, errs, errs_5, domain_dict, cycle_avgs_all_subgroups,
                   subgroup_cycle_errs, cycle_errs, total_avg_error, cycle, i_dom,
                   sev_idx, domain_name, reset_log, report, domain_report, raised,
                   calls>>

\* lines 216-233: the aggregate averages, then the entry into the extra pass
Aggregate ==
    /\ pc = "aggregate"
    /\ total_avg_error' = Mean(subgroup_avgs)
    /\ IF RunsExtraPass(cfg.SETTING)
       THEN /\ i_dom' = 0
            /\ domain_name' = "mixed"
            /\ IF severities # <<>>
               THEN sev_idx' = 1 /\ pc' = "extra_load"
               ELSE sev_idx' = sev_idx /\ pc' = "report"
       ELSE /\ pc' = "report"
            /\ UNCHANGED <<i_dom, domain_name, sev_idx>>
    /\ UNCHANGED <<cfg, accSeed, failure, model, domain_sequence, domain_seq_loop,
                   severities, errs, errs_5, domain_dict, subgroup_avgs,
                   cycle_avgs_all_subgroups, subgroup_cycle_errs, cycle_errs, sg, cycle,
                   reset_log, report, domain_report, raised, calls>>

\* lines 234-255
ExtraLoadData ==
    /\ pc = "extra_load"
    /\ calls' = Append(calls, Call("get_test_loader", "mixed_domains", domain_name,
                                   severities[sev_idx]))
    /\ \/ pc' = "extra_accuracy" /\ failure' = failure /\ raised' = NoRaise
       \/ \E exc \in Exceptions :
            raised' = [op |-> "get_test_loader", exc |-> exc] /\ Raise(exc)
    /\ UNCHANGED <<cfg, accSeed, model, domain_sequence, domain_seq_loop, severities,
                   errs, errs_5, domain_dict, subgroup_avgs, cycle_avgs_all_subgroups,
                   subgroup_cycle_errs, cycle_errs, total_avg_error, sg, cycle, i_dom,
                   sev_idx, domain_name, reset_log, report, domain_report>>

\* lines 257-274, and the advance of the severity loop of the extra pass
ExtraGetAccuracy ==
    /\ pc = "extra_accuracy"
    /\ calls' = Append(calls, Call("get_accuracy", "mixed_domains", domain_name,
                                   severities[sev_idx]))
    /\ \/ \E filled \in {domain_dict, TRUE} :
            LET err == 10000 - Accuracy(accSeed, Len(errs) + 1, severities[sev_idx])
            IN  /\ domain_dict' = filled
                /\ errs' = Append(errs, err)
                /\ errs_5' = IF CountsAtFive(severities[sev_idx], domain_name)
                             THEN Append(errs_5, err) ELSE errs_5
                /\ failure' = failure /\ raised' = NoRaise
                /\ IF sev_idx < Len(severities)
                   THEN sev_idx' = sev_idx + 1 /\ pc' = "extra_load"
                   ELSE sev_idx' = sev_idx /\ pc' = "report"
       \/ /\ \E exc \in Exceptions :
               raised' = [op |-> "get_accuracy", exc |-> exc] /\ Raise(exc)
          /\ UNCHANGED <<domain_dict, errs, errs_5, sev_idx>>
    /\ UNCHANGED <<cfg, accSeed, model, domain_sequence, domain_seq_loop, severities,
                   subgroup_avgs, cycle_avgs_all_subgroups, subgroup_cycle_errs,
                   cycle_errs, total_avg_error, sg, cycle, i_dom, domain_name,
                   reset_log, report, domain_report>>

\* lines 276-290
Report ==
    /\ pc = "report"
    /\ report' = IF Len(errs_5) > 0 THEN "mean_and_mean_at_5" ELSE "mean"
    /\ domain_report' = ReportsDomains(cfg.SETTING, domain_dict)
    /\ pc' = "done"
    /\ UNCHANGED <<cfg, accSeed, failure, model, domain_sequence, domain_seq_loop,
                   severities, errs, errs_5, domain_dict, subgroup_avgs,
                   cycle_avgs_all_subgroups, subgroup_cycle_errs, cycle_errs,
                   total_avg_error, sg, cycle, i_dom, sev_idx, domain_name, reset_log,
                   raised, calls>>

Next ==
    \/ ValidateSetting
    \/ SetupModel
    \/ BuildPlan
    \/ ResetModel
    \/ StartCycle
    \/ SelectDomain
    \/ LoadData
    \/ GetAccuracy
    \/ EndCycle
    \/ EndSubgroup
    \/ Aggregate
    \/ ExtraLoadData
    \/ ExtraGetAccuracy
    \/ Report

Spec == Init /\ [][Next]_vars
(***************************************************************************)
(* Helpers of the properties                                               *)
(***************************************************************************)
RECURSIVE ConcatMap(_, _, _)
\* f(lo) \o f(lo + 1) \o ... \o f(hi)
ConcatMap(f(_), lo, hi) ==
    IF lo > hi THEN <<>> ELSE f(lo) \o ConcatMap(f, lo + 1, hi)

IsPrefix(s, t) == Len(s) <= Len(t) /\ SubSeq(t, 1, Len(s)) = s

LastCall == calls[Len(calls)]

\* the calls of one routine, in call order
CallsOf(op) == SelectSeq(calls, LAMBDA c : c.op = op)

\* where and for what a call was made
Visit(c) == <<c.sg, c.cycle, c.i_dom, c.severity>>

\* the evaluations of the subgroup loop in the nesting order
\* subgroup > cycle > domain > severity
NestedEvaluations ==
    ConcatMap(LAMBDA s :
      ConcatMap(LAMBDA c :
        ConcatMap(LAMBDA d :
          ConcatMap(LAMBDA k : << <<s, c, d, severities[k]>> >>, 1, Len(severities)),
          subgroups[s].start, subgroups[s].stop - 1),
        0, 1),
      1, Len(subgroups))

\* the last n entries of a sequence
LastN(s, n) == SubSeq(s, Len(s) - n + 1, Len(s))

(***************************************************************************)
(* C1                                                                      *)
(***************************************************************************)
NineSettings ==
    { "reset_each_shift", "continual", "gradual", "mixed_domains", "correlated",
      "mixed_domains_correlated", "gradual_correlated", "reset_each_shift_correlated",
      "continual_mixed_domain" }

SettingAssertionFailed == pc = "aborted" /\ failure = "AssertionError" /\ model = "none"

\* C1: a setting outside the nine listed ones never gets past the assertion: no
\* model is built, no model.reset / get_test_loader / get_accuracy call is made and
\* errs stays empty, and the run ends in the assertion's failure; a listed setting
\* never fails the assertion.
C1_SettingValidated ==
    /\ cfg.SETTING \notin NineSettings =>
         /\ pc \in { "assert_setting", "aborted" }
         /\ pc = "aborted" => failure = "AssertionError"
         /\ model = "none"
         /\ calls = <<>>
         /\ errs = <<>>
    /\ cfg.SETTING \in NineSettings => ~SettingAssertionFailed

C1_Witness ==
    /\ cfg.SETTING = "continual_mixed_domains"
    /\ SettingAssertionFailed

(***************************************************************************)
(* C2                                                                      *)
(***************************************************************************)
\* C2: every error is recorded per subgroup, cycle, domain and severity: when a
\* cycle ends its cycle_errs are the last len(subgroup) * len(severities) entries
\* of errs, and when the subgroup loop has completed the get_accuracy calls are
\* exactly the nested evaluations, one error each, len(errs) = 2 * 15 *
\* len(severities), and both cycles hold 5 averages.
C2_ErrorsPerEvaluation ==
    /\ pc = "cycle_end" =>
         /\ Len(cycle_errs) = RangeLen(subgroups[sg]) * Len(severities)
         /\ Len(cycle_errs) <= Len(errs)
         /\ cycle_errs = LastN(errs, Len(cycle_errs))
    /\ pc = "aggregate" =>
         /\ Len(errs) = 2 * 15 * Len(severities)
         /\ Len(CallsOf("get_accuracy")) = Len(errs)
         /\ [k \in 1..Len(errs) |-> Visit(CallsOf("get_accuracy")[k])] = NestedEvaluations
         /\ \A k \in 1..Len(errs) :
              errs[k] = 10000 - Accuracy(accSeed, k, CallsOf("get_accuracy")[k].severity)
         /\ Len(cycle_avgs_all_subgroups[1]) = 5
         /\ Len(cycle_avgs_all_subgroups[2]) = 5

C2_Witness ==
    /\ pc = "aggregate"
    /\ Len(severities) = 2
    /\ Len(errs) = 60

(***************************************************************************)
(* C3                                                                      *)
(***************************************************************************)
\* the domain indices evaluated in one cycle of one subgroup, in order
DomainsVisited(s, c) ==
    LET evals == SelectSeq(calls, LAMBDA e : e.op = "get_accuracy" /\ e.sg = s /\ e.cycle = c)
    IN  [k \in 1..Len(evals) |-> evals[k].i_dom]

\* positions in the call history
ResetPositions(s) == { k \in 1..Len(calls) : calls[k].op = "reset" /\ calls[k].sg = s }
EvalPositions(s, c) ==
    { k \in 1..Len(calls) : calls[k].op = "get_accuracy" /\ calls[k].sg = s /\ calls[k].cycle = c }

\* C3: model.reset is attempted once per subgroup and before any evaluation of the
\* subgroup (so never between its cycles); the second pass of a subgroup starts
\* only after the first pass has evaluated every domain and severity; and when the
\* subgroup loop has completed, each of the five subgroups was passed exactly
\* twice, both passes over the same domain indices in ascending order.
C3_TwoPassesOneReset ==
    /\ (calls # <<>> /\ LastCall.op = "reset") =>
         /\ Cardinality(ResetPositions(LastCall.sg)) = 1
         /\ EvalPositions(LastCall.sg, 0) \cup EvalPositions(LastCall.sg, 1) = {}
    /\ (pc \in { "load", "accuracy" } /\ cycle = 1) =>
         DomainsVisited(sg, 0) =
           ConcatMap(LAMBDA d : [k \in 1..Len(severities) |-> d],
                     subgroups[sg].start, subgroups[sg].stop - 1)
    /\ pc = "aggregate" =>
         /\ { calls[k].sg : k \in 1..Len(calls) } = 1..5
         /\ { CallsOf("get_accuracy")[k].cycle : k \in 1..Len(errs) } = {0, 1}
         /\ \A s \in 1..5 :
              /\ DomainsVisited(s, 0) # <<>>
              /\ DomainsVisited(s, 0) = DomainsVisited(s, 1)
              /\ \A k \in 1..(Len(DomainsVisited(s, 0)) - 1) :
                   DomainsVisited(s, 0)[k] <= DomainsVisited(s, 0)[k + 1]
              /\ \A a \in EvalPositions(s, 0), b \in EvalPositions(s, 1) : a < b
              /\ Cardinality(ResetPositions(s)) = 1
              /\ \A r \in ResetPositions(s), a \in EvalPositions(s, 0) \cup EvalPositions(s, 1) :
                   r < a
              /\ \A r \in ResetPositions(s) :
                   \A t \in 1..(s - 1) :
                     \A a \in EvalPositions(t, 0) \cup EvalPositions(t, 1) : a < r

C3_Witness ==
    /\ pc = "aggregate"
    /\ Len(CallsOf("reset")) = 5
    /\ Len(errs) = 30

(***************************************************************************)
(* C4                                                                      *)
(***************************************************************************)
\* C4: in the reset_each_shift settings the model is reset between the last
\* evaluation of a domain and the first evaluation of the next one: when the first
\* loader of a domain is about to be built, the most recent call is model.reset.
C4_ResetBetweenDomains ==
    ( /\ cfg.SETTING \in { "reset_each_shift", "reset_each_shift_correlated" }
      /\ pc = "load"
      /\ sev_idx = 1 )
    => LastCall.op = "reset"

(***************************************************************************)
(* C5                                                                      *)
(***************************************************************************)
\* C5: in a setting containing 'mixed_domains' the 'mixed' stream is loaded and
\* evaluated at most once per severity in the whole run.
C5_MixedStreamOnce ==
    Contains("mixed_domains", cfg.SETTING) =>
      \A i, j \in 1..Len(calls) :
        ( /\ i < j
          /\ calls[i].op = calls[j].op
          /\ calls[i].domain = "mixed"
          /\ calls[j].domain = "mixed" )
        => calls[i].severity # calls[j].severity

C5_Witness ==
    /\ cfg.SETTING = "mixed_domains"
    /\ Len(severities) = 2
    /\ Len(errs) = 2
    /\ Len(CallsOf("get_test_loader")) = 2

(***************************************************************************)
(* C6                                                                      *)
(***************************************************************************)
ResetAttributeError == [op |-> "reset", exc |-> "AttributeError"]

\* the evaluations of subgroup s alone, both cycles
SubgroupEvaluations(s) ==
    ConcatMap(LAMBDA c :
      ConcatMap(LAMBDA d :
        ConcatMap(LAMBDA k : << <<s, c, d, severities[k]>> >>, 1, Len(severities)),
        subgroups[s].start, subgroups[s].stop - 1),
      0, 1)

\* C6: an AttributeError of model.reset is logged as a warning and does not end
\* the run, and a subgroup that completes after it has evaluated every cycle,
\* domain and severity; every other exception of model.reset, get_test_loader or
\* get_accuracy ends the run at the call that raised it.
C6_OnlyResetAttributeErrorRecovered ==
    /\ raised = ResetAttributeError =>
         /\ reset_log = "warning"
         /\ LastCall.op = "reset"
         /\ pc \in { "cycle_start", "domain", "load", "cycle_end", "aborted" }
         /\ pc = "aborted" => failure \in { "IndexError", "ZeroDivisionError" }
    /\ (raised # NoRaise /\ raised # ResetAttributeError) =>
         /\ pc = "aborted"
         /\ failure = raised.exc
         /\ LastCall.op = raised.op
    /\ (pc = "subgroup_end" /\ reset_log = "warning") =>
         LET evals == SelectSeq(calls, LAMBDA c : c.op = "get_accuracy" /\ c.sg = sg)
         IN  [k \in 1..Len(evals) |-> Visit(evals[k])] = SubgroupEvaluations(sg)

C6_Witness ==
    /\ pc = "subgroup_end"
    /\ reset_log = "warning"
    /\ sg = 2
    /\ Len(cycle_errs) = 8

(***************************************************************************)
(* C7                                                                      *)
(***************************************************************************)
\* C7: for every valid setting and non-empty domain sequence, every domain index the
\* driver visits is an index of domain_seq_loop, so no IndexError ends the run.
C7_DomainIndexInRange ==
    (cfg.SETTING \in NineSettings /\ domain_sequence # <<>>) =>
      /\ pc = "domain" => (0 <= i_dom /\ i_dom < Len(domain_seq_loop))
      /\ failure # "IndexError"

(***************************************************************************)
(* C8                                                                      *)
(***************************************************************************)
ClaimedSeverities ==
    IF /\ Contains("gradual", cfg.SETTING)
       /\ cfg.DATASET \in { "cifar10_c", "cifar100_c", "imagenet_c" }
       /\ Len(cfg.SEVERITY) = 1
    THEN <<1, 2, 3, 4, 5, 4, 3, 2, 1>>
    ELSE cfg.SEVERITY

\* a domain pass of the subgroup loop has just been completed
DomainPassCompleted ==
    /\ pc \in { "domain", "cycle_end" }
    /\ calls # <<>>
    /\ LastCall.op = "get_accuracy"

\* C8: every completed domain pass has loaded and evaluated exactly the severities
\* 1,2,3,4,5,4,3,2,1 in that order in the gradual case (gradual setting, one of
\* the three corruption datasets, one configured severity), and exactly
\* cfg.CORRUPTION.SEVERITY in configured order otherwise.
C8_SeverityPlan ==
    /\ pc \in { "load", "accuracy" } => severities = ClaimedSeverities
    /\ DomainPassCompleted =>
         LET n == Len(ClaimedSeverities)
             base == Len(calls) - 2 * n
         IN  /\ base >= 1
             /\ \A k \in 1..n :
                  /\ calls[base + 2 * k - 1].op = "get_test_loader"
                  /\ calls[base + 2 * k].op = "get_accuracy"
                  /\ calls[base + 2 * k - 1].severity = ClaimedSeverities[k]
                  /\ calls[base + 2 * k].severity = ClaimedSeverities[k]
                  /\ Visit(calls[base + 2 * k - 1]) = Visit(calls[base + 2 * k])
                  /\ calls[base + 2 * k].i_dom = LastCall.i_dom
                  /\ calls[base + 2 * k].cycle = LastCall.cycle
             /\ \/ calls[base].op = "reset"
                \/ calls[base].i_dom # LastCall.i_dom
                \/ calls[base].cycle # LastCall.cycle

C8_Witness ==
    /\ cfg.SETTING = "gradual_correlated"
    /\ cfg.DATASET = "cifar10_c"
    /\ cfg.SEVERITY = <<5>>
    /\ pc = "cycle_end"
    /\ Len(cycle_errs) = 27

(***************************************************************************)
(* C9                                                                      *)
(***************************************************************************)
\* the errors of the evaluations made at severity 5 on a domain other than "none"
ErrorsAtFive ==
    LET acc == CallsOf("get_accuracy")
        at5 == SelectSeq([k \in 1..Len(errs) |-> k],
                         LAMBDA k : acc[k].severity = 5 /\ acc[k].domain # "none")
    IN  [j \in 1..Len(at5) |-> errs[at5[j]]]

C9_Containers ==
    /\ Len(errs_5) <= Len(errs)
    /\ Len(CallsOf("get_accuracy")) \in { Len(errs), Len(errs) + 1 }
    /\ errs_5 = ErrorsAtFive
    /\ report = "mean_and_mean_at_5" => errs_5 # <<>>

\* C9: errs_5 is always the subsequence of errs made of the errors evaluated at
\* severity 5 on a domain other than 'none', both containers only grow by
\* appending, and the mean error at 5 is reported only for a non-empty errs_5.
C9_ErrorContainers ==
    /\ []C9_Containers
    /\ [][IsPrefix(errs, errs') /\ IsPrefix(errs_5, errs_5')]_vars

C9_Witness ==
    /\ pc = "done"
    /\ report = "mean_and_mean_at_5"
    /\ "none" \in { domain_sequence[k] : k \in 1..Len(domain_sequence) }
    /\ Len(errs) = 60
    /\ Len(errs_5) = 28

(***************************************************************************)
(* C10                                                                     *)
(***************************************************************************)
\* the errors of cycle c (0-based) of subgroup s among the errors of the subgroup loop
CycleErrors(s, c) ==
    LET n == RangeLen(subgroups[s]) * Len(severities)
        off == (2 * subgroups[s].start + c * RangeLen(subgroups[s])) * Len(severities)
    IN  SubSeq(errs, off + 1, off + n)

\* C10: in continual_mixed_domain the subgroup loop runs over the per-domain
\* sequence; the extra pass over 'mixed' starts only after the five subgroups and
\* the aggregate averages, makes one evaluation per severity with the setting
\* 'mixed_domains' and no reset, appends its errors to errs without changing any
\* average, and eval_domain_dict is not invoked.  No other setting runs the pass.
C10_ExtraMixedPass ==
    /\ cfg.SETTING = "continual_mixed_domain" =>
         /\ sg >= 1 => domain_seq_loop = domain_sequence
         /\ ~domain_report
         /\ pc \in { "extra_load", "extra_accuracy" } =>
              /\ Len(subgroup_avgs) = 5
              /\ Len(cycle_avgs_all_subgroups[1]) = 5
              /\ Len(cycle_avgs_all_subgroups[2]) = 5
              /\ total_avg_error = Mean(subgroup_avgs)
              /\ LastCall.op # "reset"
         /\ pc = "done" =>
              LET n == Len(severities)
                  base == Len(calls) - 2 * n
              IN  /\ Len(errs) = 2 * 15 * n + n
                  /\ calls[base].op = "get_accuracy" /\ calls[base].setting = cfg.SETTING
                  /\ \A k \in 1..n :
                       /\ calls[base + 2 * k - 1].op = "get_test_loader"
                       /\ calls[base + 2 * k].op = "get_accuracy"
                       /\ \A c \in { calls[base + 2 * k - 1], calls[base + 2 * k] } :
                            /\ c.setting = "mixed_domains"
                            /\ c.domain = "mixed"
                            /\ c.severity = severities[k]
                  /\ \A s \in 1..5 :
                       /\ \A c \in 0..1 :
                            cycle_avgs_all_subgroups[c + 1][s] = Mean(CycleErrors(s, c))
                       /\ subgroup_avgs[s] =
                            Mean(<< Mean(CycleErrors(s, 0)), Mean(CycleErrors(s, 1)) >>)
                  /\ total_avg_error = Mean(subgroup_avgs)
    /\ cfg.SETTING # "continual_mixed_domain" =>
         /\ pc \notin { "extra_load", "extra_accuracy" }
         /\ calls # <<>> => LastCall.setting = cfg.SETTING
         /\ pc = "done" => Len(errs) = 2 * 15 * Len(severities)

C10_Witness ==
    /\ cfg.SETTING = "continual_mixed_domain"
    /\ pc = "done"
    /\ Len(errs) = 62
    /\ Len(errs_5) > 28

====
